---- MODULE Spec2Model ----
(***************************************************************************)
(* Callback-token lifecycle of drfpasswordless/utils.py: token creation    *)
(* (with the demo override), single-use redemption, lazy expiry and alias  *)
(* verification, over a token store, a user store and the settings.        *)
(*                                                                         *)
(* Spec     : every handler runs to completion before the next one starts. *)
(* ConcSpec : two requests run concurrently; a handler is split at each    *)
(*            database statement (the read, then the write).               *)
(* AliasSpec: token issue and verification while contact values change.    *)
(* GuardSpec: createToken on missing and malformed input.                  *)
(* CallSpec : voice-channel tokens and their redemption.                   *)
(* EdgeSpec : every public operation on missing and malformed arguments.   *)
(* SendSpec : SMS and call dispatch under every configuration.             *)
(* CredSpec : concurrent requests for the long-lived credential.           *)
(***************************************************************************)
EXTENDS Integers, Sequences, FiniteSets, TLC

\* ---------------------------------------------------------------- bounds
MaxTokens == 2          \* rows the token store may hold
MaxTime == 2            \* the clock runs 0..MaxTime
MaxAliasChanges == 1    \* alias edits performed on the user store
MaxSent == 2            \* messages and calls handed to the transport

\* ------------------------------------------------------- value universes
None == "<None>"                      \* Python's None
Absent == "<absent>"                  \* a setting api_settings does not have
NonStr == "<int>"                     \* a value that is not a str (isinstance fails)
Users == {"u1", "u2"}
Procs == {"p1", "p2"}
Fields == {"email", "mobile"}         \* the contact fields of a user
AliasVals == {None, "", "a", "demo"}  \* values a contact field may hold
NumericKeys == {"k1", "k2"}           \* codes generate_numeric_token() may draw
ExpireVals == {<< >>, <<0>>, <<1>>, <<2>>}  \* the expiry setting; << >>: not set
KeyInputs == NumericKeys \cup {"", NonStr}

\* ------------------------------------------------------------- settings
VALID_ALIAS_TYPES == {"EMAIL", "MOBILE", "CALL"}
TOKEN_TYPE_AUTH == "AUTH"
\* The settings as shipped: both contact fields named, no test suppression,
\* both sender identities set, a working Twilio client.
\*   field[X] : PASSWORDLESS_USER_<X>_FIELD_NAME: a field name, None, or Absent
\*   suppress : PASSWORDLESS_TEST_SUPPRESSION
\*   number   : PASSWORDLESS_MOBILE_NOREPLY_NUMBER: a number, "", or Absent
\*   address  : PASSWORDLESS_EMAIL_NOREPLY_ADDRESS: an address, "", or Absent
\*   twilio   : "ok", "nocreds" (TWILIO_* not in the environment) or
\*              "missing" (the twilio package is not installed)
DefaultCfg ==
    [field |-> [x \in {"EMAIL", "MOBILE"} |-> IF x = "EMAIL" THEN "email" ELSE "mobile"],
     suppress |-> FALSE, number |-> "n", address |-> "from", twilio |-> "ok"]

\* The registry's fixed key is a six-digit code like any other: the code
\* generator may draw the same value.
PASSWORDLESS_DEMO_USERS == [a \in {"demo"} |-> "k1"]

VARIABLES
    tokens,     \* CallbackToken table: rows in primary-key order
    alias,      \* user store: alias[u][field], the contact value
    verified,   \* user store: verified[u][field], the verified flag
    now,        \* timezone.now()
    expire,     \* api_settings.PASSWORDLESS_TOKEN_EXPIRE_TIME
    pool,       \* api_settings.PASSWORDLESS_VIRTUAL_NUMBER_POOL
    nAlias,     \* alias edits so far
    last,       \* the latest completed call: what it was and what it returned
    issued,     \* issued[u][cat]: row the latest demo-path createToken returned
    pc,         \* ConcSpec: where each request stands
    loc,        \* ConcSpec: the row each request holds in memory, and its result
    cfg,        \* api_settings: field names, test suppression, sender identities
    creds,      \* rest_framework Token table: one row per credential, its user
    sent        \* messages and calls handed to the mail / Twilio transport

vars == <<tokens, alias, verified, now, expire, pool, nAlias, last, issued, pc, loc,
          cfg, creds, sent>>
store == <<tokens, alias, verified>>
side == <<cfg, creds, sent>>
env == <<now, expire, pool, nAlias, side>>
conc == <<pc, loc>>

\* Line 78
PASSWORDLESS_USER_MOBILE_FIELD_NAME == cfg.field["MOBILE"]

\* ------------------------------------------------------ Python helpers
\* `not v` for None and str values.
Falsy(v) == v = None \/ v = ""

\* isinstance(v, str)
IsStr(v) == v \notin {None, NonStr}

\* str(v): None prints as the four letters "None".
Str(v) == IF v = None THEN "None" ELSE v

\* s.lower()
Lower(s) ==
    CASE s \in {"email", "EMAIL"} -> "email"
      [] s \in {"mobile", "MOBILE"} -> "mobile"
      [] s \in {"call", "CALL"} -> "call"
      [] OTHER -> s

\* s.upper()
Upper(s) ==
    CASE s \in {"email", "EMAIL"} -> "EMAIL"
      [] s \in {"mobile", "MOBILE"} -> "MOBILE"
      [] s \in {"call", "CALL"} -> "CALL"
      [] s = "fax" -> "FAX"
      [] OTHER -> s

\* getattr(api_settings, 'PASSWORDLESS_USER_<X>_FIELD_NAME'): the configured
\* name, None when configured so, Absent when the lookup raises AttributeError
\* (there is no such setting for CALL).
FieldName(x) == IF x \in DOMAIN cfg.field THEN cfg.field[x] ELSE Absent

\* ------------------------------------------------------- the token store
Min(S) == CHOOSE x \in S : \A y \in S : x <= y

\* QuerySet.first(): the first row in primary-key order, 0 for no row.
First(S) == IF S = {} THEN 0 ELSE Min(S)

\* A lookup that settles for the first of several matching rows.
GetAny(S) == IF S = {} THEN 0 ELSE Min(S)

\* QuerySet.get(): the row when exactly one matches; 0 when it raises
\* DoesNotExist or MultipleObjectsReturned (both end in `return None/False`).
Get(S) == IF Cardinality(S) = 1 THEN Min(S) ELSE 0

\* An update by key: it clears the flag of every row that has the key of pk.
DeactivateSameKey(t, pk) ==
    [q \in DOMAIN t |-> IF t[q].key = t[pk].key THEN [t[q] EXCEPT !.is_active = FALSE] ELSE t[q]]

\* A save that flips the flag instead of clearing it.
DeactivateToggle(t, pk) == [t EXCEPT ![pk].is_active = ~@]

\* token.is_active = False; token.save()
Deactivate(t, pk) == [t EXCEPT ![pk].is_active = FALSE]

\* The row objects.create() persists: active, stamped with the current time.
NewRow(user, key, to_alias_type, to_alias, type) ==
    [key |-> key, user |-> user, to_alias |-> to_alias,
     to_alias_type |-> to_alias_type, type |-> type,
     is_active |-> TRUE, created_at |-> now]

\* objects.create(): the row gets the next primary key.
Insert(t, row) == Append(t, row)

\* The table has room for one more row (the model's bound).
HasRoom == Len(tokens) < MaxTokens

\* What the latest call was and what it returned. user is the user argument
\* of createToken and verify; arg is <<alias_type, token_type>> of createToken;
\* tok is the row the call found or returned (0: none); ret is the returned
\* value: None, a user, "token", "True" or "False".
Call(op, user, arg, tok, ret) ==
    [op |-> op, user |-> user, arg |-> arg, tok |-> tok, ret |-> ret]

NoCall == Call("none", None, << >>, 0, None)

\* ------------------------------------------------- authenticate_by_token
\* A lookup that leaves out the type filter.
AuthMatchesAnyType(key) ==
    {pk \in DOMAIN tokens : tokens[pk].key = key /\ tokens[pk].is_active}

\* The lookup of lines 31-35: the active AUTH rows with this key.
AuthMatches(key) ==
    {pk \in DOMAIN tokens :
        /\ tokens[pk].key = key
        /\ tokens[pk].is_active
        /\ tokens[pk].type = TOKEN_TYPE_AUTH}

\* The row authenticate_by_token redeems for `key`, 0 when it returns None.
AuthLookup(key) ==
    IF Falsy(key) \/ ~IsStr(key) THEN 0 ELSE Get(AuthMatches(key))

authenticate_by_token(key) ==
    LET pk == AuthLookup(key) IN
    /\ tokens' = IF pk = 0 THEN tokens ELSE Deactivate(tokens, pk)
    /\ last' = Call("auth", None, << >>, pk, IF pk = 0 THEN None ELSE tokens[pk].user)
    /\ UNCHANGED <<alias, verified, issued, env, conc>>

\* ------------------------------------------------- select_virtual_number
\* A selection that hands out generated codes instead of pool numbers.
select_generated_code == NumericKeys

\* The numbers random.choice(pool) may return; empty: ValueError is raised.
select_virtual_number == {pool[i] : i \in DOMAIN pool}

\* ---------------------------------------- create_callback_token_for_user
\* Lines 76-92: the (field, category, key) the request resolves to, over
\* the keys the generator may draw; empty when the function returns None.
ResolveAliasType(alias_type) ==
    IF Lower(alias_type) = "call"
    THEN {[field |-> PASSWORDLESS_USER_MOBILE_FIELD_NAME, to_alias_type |-> "mobile", key |-> k] :
             k \in select_virtual_number}
    ELSE IF Upper(alias_type) \notin VALID_ALIAS_TYPES
         THEN {}
         ELSE {[field |-> FieldName(Upper(alias_type)), to_alias_type |-> Lower(alias_type), key |-> k] :
                  k \in NumericKeys}

\* A demo branch that never finds a row to reuse.
DemoMatchesNone(t, user, to_alias_type) == {}

\* Line 103: the user's active rows of the category, whatever their type.
DemoMatches(t, user, to_alias_type) ==
    {pk \in DOMAIN t :
        /\ t[pk].user = user
        /\ t[pk].is_active
        /\ t[pk].to_alias_type = to_alias_type}

\* What the function decides before it writes: return None ("none"), return
\* the existing row tok ("reuse"), or create a row ("insert"). demo tells
\* whether the demo branch of line 102 was taken.
Plan(kind, tok, key, to_alias_type, to_alias, demo) ==
    [kind |-> kind, tok |-> tok, key |-> key, to_alias_type |-> to_alias_type,
     to_alias |-> to_alias, demo |-> demo]

NoPlan == Plan("none", 0, None, None, None, FALSE)

\* The call ends in an exception that no handler of the function catches.
RaisePlan == Plan("raise", 0, None, None, None, FALSE)

\* Lines 76, 78 and 90 stand before the try block: .lower() of a value that is
\* not a str, and the lookup of a field-name setting that does not exist,
\* raise AttributeError out of the function.
ResolveRaises(alias_type) ==
    \/ ~IsStr(alias_type)
    \/ Lower(alias_type) = "call" /\ PASSWORDLESS_USER_MOBILE_FIELD_NAME = Absent
    \/ /\ Lower(alias_type) # "call"
       /\ Upper(alias_type) \in VALID_ALIAS_TYPES
       /\ FieldName(Upper(alias_type)) = Absent

\* Lines 95-126 for one resolved (field, category, key).
PlanFor(t, user, c) ==
    LET al == IF c.field = None THEN None ELSE Str(alias[user][c.field])
        found == First(DemoMatches(t, user, c.to_alias_type))
    IN  IF c.field = None THEN NoPlan   \* getattr(user, None, None): TypeError, line 131
        ELSE IF al = "" THEN NoPlan
        ELSE IF al \in DOMAIN PASSWORDLESS_DEMO_USERS
        THEN IF found # 0 THEN Plan("reuse", found, None, c.to_alias_type, al, TRUE)
             ELSE IF Falsy(PASSWORDLESS_DEMO_USERS[al])
             THEN Plan("none", 0, None, c.to_alias_type, al, TRUE)
             ELSE Plan("insert", 0, PASSWORDLESS_DEMO_USERS[al], c.to_alias_type, al, TRUE)
        ELSE Plan("insert", 0, c.key, c.to_alias_type, al, FALSE)

\* Lines 72-126: the decisions the call may come to, one per key the
\* generator may draw.
CreatePlans(user, alias_type, token_type) ==
    IF Falsy(user) \/ Falsy(alias_type) \/ Falsy(token_type) THEN {NoPlan}
    ELSE IF ResolveRaises(alias_type) THEN {RaisePlan}
    ELSE IF ResolveAliasType(alias_type) = {} THEN {NoPlan}
    ELSE {PlanFor(tokens, user, c) : c \in ResolveAliasType(alias_type)}

\* The category the alias type stands for (CALL is routed to mobile).
Category(alias_type) == IF Lower(alias_type) = "call" THEN "mobile" ELSE Lower(alias_type)

\* The call resolves the user's alias and finds it in the demo registry.
IsDemoCall(user, alias_type, token_type) ==
    \E pl \in CreatePlans(user, alias_type, token_type) : pl.demo

\* The row a plan creates.
PlanRow(user, token_type, pl) ==
    NewRow(user, pl.key, pl.to_alias_type, pl.to_alias, token_type)

\* The row the call returns under plan pl (0: None) when the table is t.
PlanResult(t, pl) ==
    CASE pl.kind = "reuse" -> pl.tok
      [] pl.kind = "insert" -> Len(t) + 1
      [] OTHER -> 0

create_callback_token_for_user(user, alias_type, token_type) ==
    \E pl \in CreatePlans(user, alias_type, token_type) :
        LET pk == PlanResult(tokens, pl) IN
        /\ pl.kind = "insert" => HasRoom
        /\ tokens' = IF pl.kind = "insert"
                     THEN Insert(tokens, PlanRow(user, token_type, pl))
                     ELSE tokens
        /\ last' = Call("create", user, <<alias_type, token_type>>, pk,
                        IF pl.kind = "raise" THEN "raise"
                        ELSE IF pk = 0 THEN None ELSE "token")
        /\ issued' = IF pl.demo /\ pk # 0
                     THEN [issued EXCEPT ![user][pl.to_alias_type] = pk]
                     ELSE issued
        /\ UNCHANGED <<alias, verified, env, conc>>

\* ----------------------------------------------------- validate_token_age
\* The lookup of lines 145-148: the active rows with this key, of any type.
AgeMatches(key) ==
    {pk \in DOMAIN tokens : tokens[pk].key = key /\ tokens[pk].is_active}

AgeLookup(key) ==
    IF Falsy(key) \/ ~IsStr(key) THEN 0 ELSE Get(AgeMatches(key))

\* A validation without the demo exemption.
IsDemoRowNever(row) == FALSE

\* Line 150: the demo check reads the alias stored in the row.
IsDemoRow(row) == row.to_alias \in DOMAIN PASSWORDLESS_DEMO_USERS

\* A window check that lets zero through.
BadExpireNegative(e) == e = << >> \/ e[1] < 0

\* Line 154: the setting is missing or not positive.
BadExpire(e) == e = << >> \/ e[1] <= 0

\* An age comparison that is strict at the boundary.
WithinWindowStrict(row, e) == now - row.created_at < e[1]

\* Lines 158-159
WithinWindow(row, e) == now - row.created_at <= e[1]

\* A validation that refuses an expired token without deactivating it.
AgeVerdictKeepsActive(row) ==
    IF IsDemoRow(row) THEN "True"
    ELSE IF BadExpire(expire) THEN "False"
    ELSE IF WithinWindow(row, expire) THEN "True"
    ELSE "False"

\* What validate_token_age returns for the row it found.
AgeVerdict(row) ==
    IF IsDemoRow(row) THEN "True"
    ELSE IF BadExpire(expire) THEN "False"
    ELSE IF WithinWindow(row, expire) THEN "True"
    ELSE "expired"

validate_token_age(key) ==
    LET pk == AgeLookup(key)
        v == IF pk = 0 THEN "False" ELSE AgeVerdict(tokens[pk])
    IN  /\ tokens' = IF v = "expired" THEN Deactivate(tokens, pk) ELSE tokens
        /\ last' = Call("validate", None, << >>, pk, IF v = "True" THEN "True" ELSE "False")
        /\ UNCHANGED <<alias, verified, issued, env, conc>>

\* ------------------------------------------------------ verify_user_alias
\* Lines 186-197: the field whose flag is set, None when verify returns False.
VerifiedField(user, row) ==
    IF Upper(row.to_alias_type) \notin VALID_ALIAS_TYPES THEN None
    ELSE IF FieldName(Upper(row.to_alias_type)) \in {None, Absent} THEN None
    ELSE LET f == FieldName(Upper(row.to_alias_type))
             user_alias == Str(alias[user][f])
         IN  IF user_alias = "" THEN None
             ELSE IF row.to_alias # user_alias THEN None
             ELSE f

verify_user_alias(user, pk) ==
    LET f == VerifiedField(user, tokens[pk]) IN
    /\ verified' = IF f = None THEN verified ELSE [verified EXCEPT ![user][f] = TRUE]
    /\ last' = Call("verify", user, << >>, pk, IF f = None THEN "False" ELSE "True")
    /\ UNCHANGED <<tokens, alias, issued, env, conc>>

\* Line 181 reads token.to_alias_type.upper() before the try block: for a
\* token without an alias type that raises AttributeError out of the function.
\* pk = 0 stands for token = None; has_type tells whether the token object
\* carries its alias type.
VerifyOutcome(user, pk, has_type) ==
    IF Falsy(user) \/ pk = 0 THEN "False"
    ELSE IF ~has_type THEN "raise"
    ELSE IF VerifiedField(user, tokens[pk]) = None THEN "False"
    ELSE "True"

\* verify_user_alias for any argument values.
verify_user_alias_any(user, pk, has_type) ==
    LET r == VerifyOutcome(user, pk, has_type) IN
    /\ verified' = IF r = "True"
                   THEN [verified EXCEPT ![user][VerifiedField(user, tokens[pk])] = TRUE]
                   ELSE verified
    /\ last' = Call("verify", user, << >>, pk, r)
    /\ UNCHANGED <<tokens, alias, issued, env, conc>>

\* ------------------------------------------------------------ the senders
\* What a sender call comes to: the value it returns ("raise": it ends in an
\* exception) and the number of messages it hands to the transport.
Outcome(ret, sends) == [ret |-> ret, sends |-> sends]

\* A setting that is not there or is empty: `not hasattr(...) or not value`.
Unset(v) == v = Absent \/ Falsy(v)

\* getattr(api_settings, 'PASSWORDLESS_USER_<X>_FIELD_NAME', default)
FieldNameOr(x, default) == IF FieldName(x) = Absent THEN default ELSE FieldName(x)

\* Lines 237-272. pk = 0 stands for email_token = None.
EmailOutcomes(user, pk) ==
    IF Unset(cfg.address) THEN {Outcome("False", 0)}
    ELSE IF Falsy(user) \/ pk = 0 \/ Falsy(tokens[pk].key) THEN {Outcome("False", 0)}
    ELSE IF FieldNameOr("EMAIL", "email") = None THEN {Outcome("False", 0)}
    ELSE IF Str(alias[user][FieldNameOr("EMAIL", "email")]) = "" THEN {Outcome("False", 0)}
    ELSE {Outcome("True", 1),    \* send_mail returns
          Outcome("False", 1),   \* send_mail raises
          Outcome("False", 0)}   \* render_to_string raises

send_email_with_callback_token(user, pk) ==
    \E o \in EmailOutcomes(user, pk) :
        /\ sent + o.sends <= MaxSent
        /\ sent' = sent + o.sends
        /\ last' = Call("email", user, << >>, pk, o.ret)
        /\ UNCHANGED <<store, now, expire, pool, nAlias, cfg, creds, issued, conc>>

\* Lines 294-317 and 342-365: the Twilio client, the recipient, the request.
TwilioOutcomes(user) ==
    IF cfg.twilio # "ok" THEN {Outcome("False", 0)}
    ELSE IF FieldNameOr("MOBILE", "mobile") = None THEN {Outcome("False", 0)}
    ELSE IF Falsy(alias[user][FieldNameOr("MOBILE", "mobile")]) THEN {Outcome("False", 0)}
    ELSE {Outcome("True", 1), Outcome("False", 1)}

\* An SMS sender whose suppression branch checks nothing.
SmsOutcomesUnchecked(user, pk) ==
    IF cfg.suppress
    THEN IF user = None THEN {Outcome("raise", 0)} ELSE {Outcome("True", 0)}
    ELSE IF Unset(cfg.number) THEN {Outcome("False", 0)}
    ELSE IF Falsy(user) \/ pk = 0 \/ Falsy(tokens[pk].key) THEN {Outcome("False", 0)}
    ELSE TwilioOutcomes(user)

\* Lines 279-327. Line 283 formats user.id into the log line.
SmsOutcomes(user, pk) ==
    IF cfg.suppress
    THEN IF Unset(cfg.number) THEN {Outcome("False", 0)}
         ELSE IF user = None THEN {Outcome("raise", 0)}
         ELSE {Outcome("True", 0)}
    ELSE IF Unset(cfg.number) THEN {Outcome("False", 0)}
    ELSE IF Falsy(user) \/ pk = 0 \/ Falsy(tokens[pk].key) THEN {Outcome("False", 0)}
    ELSE TwilioOutcomes(user)

send_sms_with_callback_token(user, pk) ==
    \E o \in SmsOutcomes(user, pk) :
        /\ sent + o.sends <= MaxSent
        /\ sent' = sent + o.sends
        /\ last' = Call("sms", user, << >>, pk, o.ret)
        /\ UNCHANGED <<store, now, expire, pool, nAlias, cfg, creds, issued, conc>>

\* A call sender whose suppression branch asks for the outbound number.
CallOutcomesChecked(user, pk) ==
    IF cfg.suppress
    THEN IF Unset(cfg.number) THEN {Outcome("False", 0)}
         ELSE IF user = None THEN {Outcome("raise", 0)}
         ELSE {Outcome("True", 0)}
    ELSE IF Falsy(user) \/ pk = 0 \/ Falsy(tokens[pk].key) THEN {Outcome("False", 0)}
    ELSE TwilioOutcomes(user)

\* Lines 334-375. Line 335 formats user.id into the log line.
CallOutcomes(user, pk) ==
    IF cfg.suppress
    THEN IF user = None THEN {Outcome("raise", 0)} ELSE {Outcome("True", 0)}
    ELSE IF Falsy(user) \/ pk = 0 \/ Falsy(tokens[pk].key) THEN {Outcome("False", 0)}
    ELSE TwilioOutcomes(user)

send_call_with_callback_token(user, pk) ==
    \E o \in CallOutcomes(user, pk) :
        /\ sent + o.sends <= MaxSent
        /\ sent' = sent + o.sends
        /\ last' = Call("call", user, << >>, pk, o.ret)
        /\ UNCHANGED <<store, now, expire, pool, nAlias, cfg, creds, issued, conc>>

\* -------------------------------------------- create_authentication_token
\* The credential rows of a user.
CredRows(c, user) == {i \in DOMAIN c : c[i] = user}

\* Lines 381-392, one call after the other: Token.objects.get_or_create
\* returns the user's row, or creates it when there is none; with several
\* rows its get() raises MultipleObjectsReturned, caught at line 390.
create_authentication_token(user) ==
    LET rows == IF Falsy(user) THEN {} ELSE CredRows(creds, user)
        tok == IF Falsy(user) \/ Cardinality(rows) > 1 THEN 0
               ELSE IF rows = {} THEN Len(creds) + 1
               ELSE Get(rows)
    IN  /\ creds' = IF ~Falsy(user) /\ rows = {} THEN Append(creds, user) ELSE creds
        /\ last' = Call("cred", user, << >>, tok, IF tok = 0 THEN None ELSE "token")
        /\ UNCHANGED <<store, now, expire, pool, nAlias, cfg, sent, issued, conc>>

\* -------------------------------------------------------- the environment
\* The clock advances by d.
Advance(d) ==
    /\ now + d <= MaxTime
    /\ now' = now + d
    /\ UNCHANGED <<store, expire, pool, nAlias, side, last, issued, conc>>

Tick == Advance(1)

\* The user edits a contact value.
SetAlias(u, f, v) ==
    /\ nAlias < MaxAliasChanges
    /\ v # alias[u][f]
    /\ alias' = [alias EXCEPT ![u][f] = v]
    /\ issued' = [issued EXCEPT ![u][f] = 0]
    /\ nAlias' = nAlias + 1
    /\ UNCHANGED <<tokens, verified, now, expire, pool, side, last, conc>>

\* The operator changes the expiry setting.
SetExpire(e) ==
    /\ e # expire
    /\ expire' = e
    /\ UNCHANGED <<store, now, pool, nAlias, side, last, issued, conc>>

\* What a request holds: the call (with the row it read) and, for
\* createToken, the decision it came to.
Req(call, plan) == [call |-> call, plan |-> plan]

\* ------------------------------------------------------------------ Spec
\* The state after set-up: an empty token table, nothing verified, no request
\* in flight; the contact values and the settings are the given ones.
Start(al, ex, po) ==
    /\ tokens = << >>
    /\ alias = al
    /\ verified = [u \in Users |-> [f \in Fields |-> FALSE]]
    /\ now = 0
    /\ expire = ex
    /\ pool = po
    /\ nAlias = 0
    /\ last = NoCall
    /\ issued = [u \in Users |-> [f \in Fields |-> 0]]
    /\ pc = [p \in Procs |-> "idle"]
    /\ loc = [p \in Procs |-> Req(NoCall, NoPlan)]
    /\ cfg = DefaultCfg
    /\ creds = << >>
    /\ sent = 0

\* u1 has an ordinary e-mail address and a demo mobile number; u2 has a demo
\* e-mail address and no mobile number.
Contacts ==
    [u \in Users |->
        IF u = "u1" THEN [f \in Fields |-> IF f = "email" THEN "a" ELSE "demo"]
        ELSE [f \in Fields |-> IF f = "email" THEN "demo" ELSE None]]

\* Spec: the token lifecycle over time, one call after the other.
CreateInputs ==
    {<<"u1", "email", "AUTH">>,
     <<"u1", "MOBILE", "AUTH">>, <<"u1", "MOBILE", "VERIFY">>,
     <<"u2", "EMAIL", "AUTH">>}

Init == \E e \in ExpireVals : Start(Contacts, e, <<"v1">>)

Next ==
    \/ \E k \in KeyInputs : authenticate_by_token(k)
    \/ \E c \in CreateInputs : create_callback_token_for_user(c[1], c[2], c[3])
    \/ \E k \in KeyInputs : validate_token_age(k)
    \/ Tick
    \/ \E e \in ExpireVals : SetExpire(e)

Spec == Init /\ [][Next]_vars

\* ------------------------------------------------------------- AliasSpec
\* Verification against contact values that change, one call after the other.
AliasCreateInputs ==
    {<<"u1", "email", "VERIFY">>, <<"u1", "mobile", "VERIFY">>,
     <<"u2", "mobile", "VERIFY">>}

AliasInit == Start(Contacts, <<1>>, <<"v1">>)

AliasNext ==
    \/ \E c \in AliasCreateInputs : create_callback_token_for_user(c[1], c[2], c[3])
    \/ \E u \in Users, pk \in DOMAIN tokens : verify_user_alias(u, pk)
    \/ \E u \in Users, f \in Fields, v \in AliasVals : SetAlias(u, f, v)

AliasSpec == AliasInit /\ [][AliasNext]_vars

\* -------------------------------------------------------------- ConcSpec
\* Two requests at a time. A handler takes one step per database statement:
\* transaction.atomic() delimits what is committed together, it holds no lock
\* between the SELECT and the write that follows it.
Free(p) == pc[p] \in {"idle", "done"}

\* Lines 26-35: the guard and the SELECT.
AuthRead(p, key) ==
    LET pk == AuthLookup(key) IN
    /\ Free(p)
    /\ pc' = [pc EXCEPT ![p] = IF pk = 0 THEN "done" ELSE "auth_save"]
    /\ loc' = [loc EXCEPT ![p] =
                  Req(Call("auth", None, << >>, pk,
                           IF pk = 0 THEN None ELSE tokens[pk].user), NoPlan)]
    /\ UNCHANGED <<store, env, last, issued>>

\* Lines 36-40: the UPDATE of the row read, then `return token.user`.
AuthSave(p) ==
    /\ pc[p] = "auth_save"
    /\ tokens' = Deactivate(tokens, loc[p].call.tok)
    /\ pc' = [pc EXCEPT ![p] = "done"]
    /\ UNCHANGED <<alias, verified, env, last, issued, loc>>

\* Lines 72-110: the guards, the alias, and the demo SELECT.
CreateCheck(p, user, alias_type, token_type) ==
    /\ Free(p)
    /\ \E pl \in CreatePlans(user, alias_type, token_type) :
          /\ pc' = [pc EXCEPT ![p] = IF pl.kind = "insert" THEN "create_write" ELSE "done"]
          /\ loc' = [loc EXCEPT ![p] =
                        Req(Call("create", user, <<alias_type, token_type>>,
                                 IF pl.kind = "reuse" THEN pl.tok ELSE 0,
                                 IF pl.kind = "reuse" THEN "token"
                                 ELSE IF pl.kind = "raise" THEN "raise" ELSE None),
                            IF pl.kind = "insert" THEN pl ELSE NoPlan)]
    /\ UNCHANGED <<store, env, last, issued>>

\* Lines 111-126: the INSERT, then `return` the new row.
CreateWrite(p) ==
    /\ pc[p] = "create_write"
    /\ HasRoom
    /\ tokens' = Insert(tokens, PlanRow(loc[p].call.user, loc[p].call.arg[2], loc[p].plan))
    /\ loc' = [loc EXCEPT ![p].call.tok = Len(tokens) + 1, ![p].call.ret = "token",
                           ![p].plan = NoPlan]
    /\ pc' = [pc EXCEPT ![p] = "done"]
    /\ UNCHANGED <<alias, verified, env, last, issued>>

\* Lines 140-161: the guard, the SELECT and the age test.
AgeRead(p, key) ==
    LET pk == AgeLookup(key)
        v == IF pk = 0 THEN "False" ELSE AgeVerdict(tokens[pk])
    IN  /\ Free(p)
        /\ pc' = [pc EXCEPT ![p] = IF v = "expired" THEN "age_save" ELSE "done"]
        /\ loc' = [loc EXCEPT ![p] =
                      Req(Call("validate", None, << >>, pk,
                               IF v = "True" THEN "True" ELSE "False"), NoPlan)]
        /\ UNCHANGED <<store, env, last, issued>>

\* Lines 163-167: the UPDATE of the row read, then `return False`.
AgeSave(p) ==
    /\ pc[p] = "age_save"
    /\ tokens' = Deactivate(tokens, loc[p].call.tok)
    /\ pc' = [pc EXCEPT ![p] = "done"]
    /\ UNCHANGED <<alias, verified, env, last, issued, loc>>

\* verify_user_alias reads and writes the user only: one step.
VerifyCall(p, user, pk) ==
    LET f == VerifiedField(user, tokens[pk]) IN
    /\ Free(p)
    /\ verified' = IF f = None THEN verified ELSE [verified EXCEPT ![user][f] = TRUE]
    /\ pc' = [pc EXCEPT ![p] = "done"]
    /\ loc' = [loc EXCEPT ![p] =
                  Req(Call("verify", user, << >>, 0,
                           IF f = None THEN "False" ELSE "True"), NoPlan)]
    /\ UNCHANGED <<tokens, alias, env, last, issued>>

ConcCreateInputs == {<<"u1", "email", "AUTH">>}

ConcInit == Start(Contacts, <<1>>, <<"v1">>)

ConcNext ==
    \/ \E p \in Procs, k \in NumericKeys : AuthRead(p, k)
    \/ \E p \in Procs : AuthSave(p)
    \/ \E p \in Procs, c \in ConcCreateInputs : CreateCheck(p, c[1], c[2], c[3])
    \/ \E p \in Procs : CreateWrite(p)
    \/ \E p \in Procs, k \in NumericKeys : AgeRead(p, k)
    \/ \E p \in Procs : AgeSave(p)
    \/ \E p \in Procs, pk \in DOMAIN tokens : VerifyCall(p, "u1", pk)
    \/ \E v \in {"a", "demo"} : SetAlias("u1", "email", v)
    \/ Advance(MaxTime)

ConcSpec == ConcInit /\ [][ConcNext]_vars

\* ------------------------------------------------------------- GuardSpec
\* createToken on every kind of input, under settings that name the e-mail
\* field, leave it None or lack it, and with or without virtual numbers.
\* u1 has an e-mail address and an empty mobile number; u2 has a demo e-mail
\* address and no mobile number.
GuardContacts ==
    [u \in Users |->
        IF u = "u1" THEN [f \in Fields |-> IF f = "email" THEN "a" ELSE ""]
        ELSE [f \in Fields |-> IF f = "email" THEN "demo" ELSE None]]

GuardCfgs ==
    {[DefaultCfg EXCEPT !.field["EMAIL"] = v] : v \in {"email", None, Absent}}

GuardUsers == Users \cup {None}
GuardAliasTypes == {"email", "MOBILE", "call", "fax", "", NonStr}
GuardTokenTypes == {"AUTH", ""}

\* Start, with the settings c in place of the shipped ones.
StartWith(al, ex, po, c) ==
    /\ tokens = << >>
    /\ alias = al
    /\ verified = [u \in Users |-> [f \in Fields |-> FALSE]]
    /\ now = 0
    /\ expire = ex
    /\ pool = po
    /\ nAlias = 0
    /\ last = NoCall
    /\ issued = [u \in Users |-> [f \in Fields |-> 0]]
    /\ pc = [p \in Procs |-> "idle"]
    /\ loc = [p \in Procs |-> Req(NoCall, NoPlan)]
    /\ cfg = c
    /\ creds = << >>
    /\ sent = 0

GuardInit ==
    \E po \in {<< >>, <<"v1">>}, c \in GuardCfgs : StartWith(GuardContacts, <<1>>, po, c)

GuardNext ==
    \E u \in GuardUsers, a \in GuardAliasTypes, t \in GuardTokenTypes :
        create_callback_token_for_user(u, a, t)

GuardSpec == GuardInit /\ [][GuardNext]_vars

\* -------------------------------------------------------------- CallSpec
\* Tokens for the voice channel and their redemption. u1 has an ordinary
\* mobile number, u2 a demo one; the pool holds no, one or two numbers.
CallContacts ==
    [u \in Users |-> [f \in Fields |-> IF u = "u1" THEN "a" ELSE "demo"]]

CallPools == {<< >>, <<"v1">>, <<"v1", "v2">>}
CallAliasTypes == {"call", "CALL"}
CallKeys == {"v1", "v2", "k1"}

CallInit == \E po \in CallPools : Start(CallContacts, <<1>>, po)

CallNext ==
    \/ \E u \in Users, a \in CallAliasTypes : create_callback_token_for_user(u, a, "AUTH")
    \/ \E k \in CallKeys : authenticate_by_token(k)

CallSpec == CallInit /\ [][CallNext]_vars

\* -------------------------------------------------------------- EdgeSpec
\* Every public operation on missing and malformed arguments, one call after
\* the other, under the shipped settings, under test suppression, and with
\* the e-mail field-name setting missing.
EdgeCfgs ==
    {DefaultCfg, [DefaultCfg EXCEPT !.suppress = TRUE],
     [DefaultCfg EXCEPT !.field["EMAIL"] = Absent]}

EdgeCreateInputs ==
    {<<"u1", "email", "AUTH">>, <<None, "email", "AUTH">>, <<"u1", NonStr, "AUTH">>,
     <<"u1", "fax", "AUTH">>, <<"u1", "email", "">>}

\* A token argument: a stored row, or 0 for None.
TokenArgs == DOMAIN tokens \cup {0}

EdgeInit == \E c \in EdgeCfgs : StartWith(Contacts, <<1>>, <<"v1">>, c)

EdgeNext ==
    \/ \E k \in KeyInputs : authenticate_by_token(k)
    \/ \E c \in EdgeCreateInputs : create_callback_token_for_user(c[1], c[2], c[3])
    \/ \E k \in KeyInputs : validate_token_age(k)
    \/ \E u \in GuardUsers, pk \in TokenArgs, has_type \in BOOLEAN :
          verify_user_alias_any(u, pk, has_type)
    \/ \E u \in GuardUsers, pk \in TokenArgs : send_email_with_callback_token(u, pk)
    \/ \E u \in GuardUsers, pk \in TokenArgs : send_sms_with_callback_token(u, pk)
    \/ \E u \in GuardUsers, pk \in TokenArgs : send_call_with_callback_token(u, pk)
    \/ \E u \in GuardUsers : create_authentication_token(u)

EdgeSpec == EdgeInit /\ [][EdgeNext]_vars

\* -------------------------------------------------------------- CredSpec
\* Two requests ask for credentials concurrently. get_or_create is a SELECT
\* and, when it finds no row, an INSERT in a savepoint; Token.user is a
\* one-to-one field, so a second row for a user is refused by the database
\* (IntegrityError) and get_or_create then returns the row that is there.

\* A schema without the unique constraint.
NoUniqueConstraint(c, user) == FALSE

UniqueViolation(c, user) == CredRows(c, user) # {}

\* Lines 381-387: the guard and the SELECT of get_or_create.
CredGet(p, user) ==
    LET rows == IF Falsy(user) THEN {} ELSE CredRows(creds, user)
        miss == ~Falsy(user) /\ rows = {}
    IN  /\ Free(p)
        /\ pc' = [pc EXCEPT ![p] = IF miss THEN "cred_create" ELSE "done"]
        /\ loc' = [loc EXCEPT ![p] =
                      Req(Call("cred", user, << >>, Get(rows),
                               IF Get(rows) = 0 THEN None ELSE "token"), NoPlan)]
        /\ UNCHANGED <<store, env, last, issued>>

\* Line 387: the INSERT of get_or_create, or its second SELECT after the
\* database refused the row; then `return token`.
CredCreate(p) ==
    LET user == loc[p].call.user
        refused == UniqueViolation(creds, user)
        tok == IF refused THEN Get(CredRows(creds, user)) ELSE Len(creds) + 1
    IN  /\ pc[p] = "cred_create"
        /\ creds' = IF refused THEN creds ELSE Append(creds, user)
        /\ loc' = [loc EXCEPT ![p].call.tok = tok,
                               ![p].call.ret = IF tok = 0 THEN None ELSE "token",
                               ![p].call.arg = IF refused THEN <<"IntegrityError">> ELSE << >>]
        /\ pc' = [pc EXCEPT ![p] = "done"]
        /\ UNCHANGED <<store, now, expire, pool, nAlias, cfg, sent, last, issued>>

CredInit == Start(Contacts, <<1>>, <<"v1">>)

CredNext ==
    \/ \E p \in Procs, u \in GuardUsers : CredGet(p, u)
    \/ \E p \in Procs : CredCreate(p)
    \/ \E u \in GuardUsers : create_authentication_token(u)

CredSpec == CredInit /\ [][CredNext]_vars

\* -------------------------------------------------------------- SendSpec
\* SMS and call dispatch for the users of the system, with test suppression
\* on or off, the outbound number set, empty or missing, the Twilio client
\* usable or not, and with or without virtual numbers.
SendCfgs ==
    {[DefaultCfg EXCEPT !.suppress = su, !.number = n, !.twilio = tw] :
        su \in BOOLEAN, n \in {"n", "", Absent}, tw \in {"ok", "nocreds", "missing"}}

SendCreateInputs == {<<"u1", "email", "AUTH">>, <<"u1", "call", "AUTH">>}

SendInit ==
    \E c \in SendCfgs, po \in {<< >>, <<"v1">>} : StartWith(Contacts, <<1>>, po, c)

SendNext ==
    \/ \E c \in SendCreateInputs : create_callback_token_for_user(c[1], c[2], c[3])
    \/ \E u \in Users, pk \in TokenArgs : send_sms_with_callback_token(u, pk)
    \/ \E u \in Users, pk \in TokenArgs : send_call_with_callback_token(u, pk)

SendSpec == SendInit /\ [][SendNext]_vars

\* ================================================================ claims
AliasTypeInputs == {"email", "EMAIL", "mobile", "MOBILE", "call", "fax", ""}
TokenTypeInputs == {"AUTH", "VERIFY", ""}

\* The vocabulary of the claims, stated on the table itself.
LiveWithKey(k) == {q \in DOMAIN tokens : tokens[q].key = k /\ tokens[q].is_active}
LiveAuthWithKey(k) == {q \in LiveWithKey(k) : tokens[q].type = "AUTH"}
InRegistry(row) == row.to_alias \in DOMAIN PASSWORDLESS_DEMO_USERS
WindowPositive == expire # << >> /\ expire[1] > 0
Age(row) == now - row.created_at

\* The latest call was a createToken that returned row pk.
Created(pk) == last.op = "create" /\ last.tok = pk /\ pk # 0

\* The step is an authenticate call with the key of row pk.
AuthStepFor(pk) == authenticate_by_token(tokens[pk].key)

\* The step is a validateTokenAge call with the key of row pk.
AgeStepFor(pk) == validate_token_age(tokens[pk].key)

\* Request p has completed an authenticate call that returned the owner of
\* row pk.
Redeemed(p, pk) ==
    pc[p] = "done" /\ loc[p].call.op = "auth" /\ loc[p].call.tok = pk /\ pk # 0

\* C1: of the concurrent authenticate calls with one key, at most one returns
\* a user for the same token row.
C1_AtMostOneRedemption ==
    \A p \in Procs, q \in Procs, pk \in DOMAIN tokens :
        (Redeemed(p, pk) /\ Redeemed(q, pk)) => p = q

\* C2 (as stated): after createToken(user, EMAIL|MOBILE, AUTH) returned a
\* token, the authenticate call that follows with the token's key returns
\* that user.
C2_AsStated ==
    [][\A pk \in DOMAIN tokens :
          (Created(pk) /\ last.arg[2] = "AUTH" /\ AuthStepFor(pk))
              => last'.ret = last.user]_vars

\* C2 (amended): after createToken(user, EMAIL|MOBILE, AUTH) returned token t,
\* the authenticate(t.key) that follows returns that user and deactivates t
\* provided t is then the only active AUTH token with that key; and an
\* authenticate(t.key) that follows a successful one returns none.
C2_CreateThenAuthOnce ==
    [][\A pk \in DOMAIN tokens :
          /\ (Created(pk) /\ last.arg[2] = "AUTH" /\ AuthStepFor(pk)
                 /\ LiveAuthWithKey(tokens[pk].key) = {pk})
                => (last'.ret = last.user /\ last'.tok = pk /\ ~tokens'[pk].is_active)
          /\ (last.op = "auth" /\ last.tok = pk /\ AuthStepFor(pk))
                => (last'.ret = None /\ tokens' = tokens)]_vars

\* An authenticate call has just redeemed a token and returned its owner.
C2_Witness ==
    /\ last.op = "auth" /\ last.tok # 0
    /\ last.ret = tokens[last.tok].user
    /\ ~tokens[last.tok].is_active

\* C3: in every step, of any request and of the environment, every token row
\* stays in the table with its key, user, to_alias, to_alias_type and type,
\* and a row that is inactive stays inactive.
C3_RowsImmutable ==
    [][\A pk \in DOMAIN tokens :
          /\ pk \in DOMAIN tokens'
          /\ tokens'[pk].key = tokens[pk].key
          /\ tokens'[pk].user = tokens[pk].user
          /\ tokens'[pk].to_alias = tokens[pk].to_alias
          /\ tokens'[pk].to_alias_type = tokens[pk].to_alias_type
          /\ tokens'[pk].type = tokens[pk].type
          /\ tokens'[pk].is_active => tokens[pk].is_active]_vars

\* Two interleaved authenticate calls have both saved the same row, the
\* owner's alias has changed since, and the row still holds the old alias.
C3_Witness ==
    \E pk \in DOMAIN tokens :
        /\ Redeemed("p1", pk) /\ Redeemed("p2", pk)
        /\ ~tokens[pk].is_active
        /\ tokens[pk].to_alias # Str(alias[tokens[pk].user][tokens[pk].to_alias_type])

\* C4: while the token a demo createToken returned for a user and category is
\* still active, every further demo createToken for that user and category
\* returns that same row and adds no row. (The first conjunct restates what
\* the call records of itself, so that the other conjuncts are looked at for
\* the call's own arguments only.)
C4_DemoReuse ==
    [][\A u \in Users, a \in AliasTypeInputs, t \in TokenTypeInputs :
          (/\ last'.op = "create" /\ last'.user = u /\ last'.arg = <<a, t>>
           /\ IsDemoCall(u, a, t)
           /\ issued[u][Category(a)] # 0
           /\ tokens[issued[u][Category(a)]].is_active
           /\ create_callback_token_for_user(u, a, t))
              => (last'.tok = issued[u][Category(a)] /\ tokens' = tokens)]_vars

\* A demo createToken has just returned a row that was already in the table.
C4_Witness ==
    /\ last.op = "create" /\ last.tok # 0 /\ last.tok < Len(tokens)
    /\ issued[last.user][tokens[last.tok].to_alias_type] = last.tok
    /\ tokens[last.tok].is_active

\* The active rows of a user and category that were issued for a demo alias.
ActiveDemoRows(u, f) ==
    {pk \in DOMAIN tokens :
        /\ tokens[pk].user = u /\ tokens[pk].to_alias_type = f
        /\ tokens[pk].is_active /\ InRegistry(tokens[pk])}

\* C5: under concurrent createToken calls for a demo user and category, the
\* table never holds two active demo tokens of that user and category.
C5_NoDoubleCreate ==
    \A u \in Users, f \in Fields : Cardinality(ActiveDemoRows(u, f)) <= 1

\* C6 (as stated): for an active non-demo token and a positive window,
\* validateTokenAge(key) returns true exactly when the age is within the
\* window, and a true result leaves the table unchanged.
C6_AsStated ==
    [][\A pk \in DOMAIN tokens :
          (/\ tokens[pk].is_active /\ ~InRegistry(tokens[pk]) /\ WindowPositive
           /\ AgeStepFor(pk))
              => /\ (last'.ret = "True") <=> (Age(tokens[pk]) <= expire[1])
                 /\ last'.ret = "True" => tokens' = tokens]_vars

\* C6 (amended): the same, for a token whose key no other active token shares.
C6_AgeBoundary ==
    [][\A pk \in DOMAIN tokens :
          (/\ tokens[pk].is_active /\ ~InRegistry(tokens[pk]) /\ WindowPositive
           /\ LiveWithKey(tokens[pk].key) = {pk}
           /\ AgeStepFor(pk))
              => /\ (last'.ret = "True") <=> (Age(tokens[pk]) <= expire[1])
                 /\ last'.ret = "True" => tokens' = tokens]_vars

\* validateTokenAge has just returned true for a non-demo token whose age is
\* exactly the window.
C6_Witness ==
    /\ last.op = "validate" /\ last.ret = "True" /\ last.tok # 0
    /\ ~InRegistry(tokens[last.tok]) /\ tokens[last.tok].is_active
    /\ WindowPositive /\ Age(tokens[last.tok]) = expire[1]

C8_AsStated ==
    [][\A pk \in DOMAIN tokens :
          (tokens[pk].is_active /\ InRegistry(tokens[pk]) /\ AgeStepFor(pk))
              => (last'.ret = "True" /\ tokens'[pk].is_active)]_vars

\* C8 (amended): for an active demo token, validateTokenAge(key) never
\* deactivates it, and returns true whatever its age and the window are
\* provided no other active token shares its key.
C8_DemoNeverExpires ==
    [][\A pk \in DOMAIN tokens :
          (tokens[pk].is_active /\ InRegistry(tokens[pk]) /\ AgeStepFor(pk))
              => /\ tokens'[pk].is_active
                 /\ LiveWithKey(tokens[pk].key) = {pk} => last'.ret = "True"]_vars

\* validateTokenAge has just returned true for a demo token as old as the
\* clock allows, with the window not even set.
C8_Witness ==
    /\ last.op = "validate" /\ last.ret = "True" /\ last.tok # 0
    /\ InRegistry(tokens[last.tok]) /\ tokens[last.tok].is_active
    /\ Age(tokens[last.tok]) = MaxTime
    /\ expire = << >>

\* C9 (as stated): validateTokenAge returns false whenever the key is empty
\* or not a string, no active token matches it, or the window is missing or
\* not positive.
C9_AsStated ==
    [][\A k \in KeyInputs :
          (/\ validate_token_age(k)
           /\ (k = "" \/ k = NonStr \/ LiveWithKey(k) = {} \/ ~WindowPositive))
              => last'.ret = "False"]_vars

\* C9 (amended): validateTokenAge returns false, and changes no token,
\* whenever the key is empty or not a string, no active token matches it, or
\* the window is missing or not positive and the matched token is not a demo
\* token.
C9_FailsClosed ==
    [][\A k \in KeyInputs :
          (/\ validate_token_age(k)
           /\ \/ k = "" \/ k = NonStr \/ LiveWithKey(k) = {}
              \/ (~WindowPositive /\ \A pk \in LiveWithKey(k) : ~InRegistry(tokens[pk])))
              => (last'.ret = "False" /\ tokens' = tokens)]_vars

\* validateTokenAge has just refused a fresh, active, non-demo token because
\* the window is not positive.
C9_Witness ==
    /\ last.op = "validate" /\ last.ret = "False" /\ last.tok # 0
    /\ tokens[last.tok].is_active /\ ~InRegistry(tokens[last.tok])
    /\ ~WindowPositive /\ now = tokens[last.tok].created_at

\* C10: for a token of a recognised, configured category, verify(user, token)
\* returns true and sets the category's verified flag if and only if
\* token.to_alias equals the user's current alias value of that category;
\* otherwise it returns false and sets no flag.
C10_VerifyIffAliasMatches ==
    [][\A u \in Users, pk \in DOMAIN tokens :
          (verify_user_alias(u, pk) /\ tokens[pk].to_alias_type \in Fields)
              => LET f == tokens[pk].to_alias_type
                     same == tokens[pk].to_alias = alias[u][f]
                 IN  /\ same <=> (last'.ret = "True" /\ verified'[u][f])
                     /\ ~same => (last'.ret = "False" /\ verified' = verified)]_vars

\* The alias type names one of the three channels, in any case.
KnownAliasType(a) == a \in {"email", "EMAIL", "mobile", "MOBILE", "call", "CALL"}

\* The setting that names the user's field for alias type a (CALL reads the
\* mobile field).
FieldSetting(a) == cfg.field[IF a \in {"email", "EMAIL"} THEN "EMAIL" ELSE "MOBILE"]

\* The inputs C11 lists: one is missing, the alias type is not a channel, the
\* field is not configured, or the user has no value in it.
C11_BadInput(u, a, t) ==
    \/ u = None \/ a = "" \/ t = ""
    \/ ~KnownAliasType(a)
    \/ FieldSetting(a) \in {None, Absent}
    \/ alias[u][FieldSetting(a)] \in {None, ""}

\* C11: createToken returns no token and leaves the token store unchanged
\* whenever an input is missing, the alias type is not EMAIL/MOBILE/CALL, the
\* user's alias value of the category is empty or absent, or the category's
\* field is not configured.
C11_RejectsBadInput ==
    [][\A u \in GuardUsers, a \in GuardAliasTypes, t \in GuardTokenTypes :
          (/\ last'.op = "create" /\ last'.user = u /\ last'.arg = <<a, t>>
           /\ C11_BadInput(u, a, t)
           /\ create_callback_token_for_user(u, a, t))
              => (last'.tok = 0 /\ tokens' = tokens)]_vars

\* The numbers of the pool.
PoolNumbers == {pool[i] : i \in DOMAIN pool}

\* The step is createToken(u, CALL, AUTH), in either spelling of CALL.
CallStep(u) ==
    \E a \in CallAliasTypes : create_callback_token_for_user(u, a, "AUTH")

\* The latest call was a createToken(CALL, AUTH) that returned row pk.
CallCreated(pk) == Created(pk) /\ last.arg[1] \in CallAliasTypes /\ last.arg[2] = "AUTH"

\* C12 (as stated): for a user with a non-empty mobile alias,
\* createToken(user, CALL, AUTH) returns an active mobile token whose key is
\* in the pool (no token and no record when the pool is empty), and the
\* authenticate(key) that follows returns that user.
C12_AsStated ==
    [][/\ \A u \in Users :
            (alias[u]["mobile"] \notin {None, ""} /\ CallStep(u))
                => IF pool = << >>
                   THEN last'.tok = 0 /\ tokens' = tokens
                   ELSE /\ last'.tok # 0
                        /\ tokens'[last'.tok].is_active
                        /\ tokens'[last'.tok].to_alias_type = "mobile"
                        /\ tokens'[last'.tok].key \in PoolNumbers
       /\ \A pk \in DOMAIN tokens :
            (CallCreated(pk) /\ AuthStepFor(pk)) => last'.ret = last.user]_vars

\* C12 (amended): for a user whose mobile alias is non-empty and not a demo
\* alias, createToken(user, CALL, AUTH) returns a new active mobile token of
\* that user whose key is in the pool (no token and no record when the pool
\* is empty); the authenticate(key) that follows returns that user and
\* deactivates the token provided it is the only active AUTH token with that
\* key, and an authenticate(key) right after a successful one returns none.
C12_CallTokenRedeemsOnce ==
    [][/\ \A u \in Users :
            (alias[u]["mobile"] \notin {None, ""}
             /\ alias[u]["mobile"] \notin DOMAIN PASSWORDLESS_DEMO_USERS
             /\ CallStep(u))
                => IF pool = << >>
                   THEN last'.tok = 0 /\ tokens' = tokens
                   ELSE /\ last'.tok = Len(tokens) + 1
                        /\ tokens'[last'.tok].is_active
                        /\ tokens'[last'.tok].user = u
                        /\ tokens'[last'.tok].to_alias_type = "mobile"
                        /\ tokens'[last'.tok].key \in PoolNumbers
       /\ \A pk \in DOMAIN tokens :
            /\ (CallCreated(pk) /\ AuthStepFor(pk)
                   /\ LiveAuthWithKey(tokens[pk].key) = {pk})
                  => (last'.ret = last.user /\ last'.tok = pk /\ ~tokens'[pk].is_active)
            /\ (last.op = "auth" /\ last.tok = pk /\ AuthStepFor(pk))
                  => (last'.ret = None /\ tokens' = tokens)]_vars

\* A token issued for the voice channel, with a pool number as its key, has
\* just been redeemed by authenticate.
C12_Witness ==
    /\ last.op = "auth" /\ last.tok # 0
    /\ tokens[last.tok].key \in PoolNumbers
    /\ tokens[last.tok].to_alias_type = "mobile"
    /\ last.ret = tokens[last.tok].user
    /\ ~tokens[last.tok].is_active

\* C13: no public operation ends in a raised exception, whatever its
\* arguments: every failure is a false or none result.
C13_NeverRaises == last.ret # "raise"

\* The credentials table c holds for user u.
CredentialsOf(c, u) == {i \in DOMAIN c : c[i] = u}

\* Request p has completed a getOrCreateCredential call for a user.
CredReturned(p) ==
    pc[p] = "done" /\ loc[p].call.op = "cred" /\ loc[p].call.user # None

\* C14: under any interleaving of getOrCreateCredential calls no user ever
\* has two credentials, no credential is removed or replaced, every completed
\* call for a user has returned that user's one credential, and a call for a
\* user who has a credential adds none.
C14_OneCredentialPerUser ==
    [][/\ \A u \in Users : Cardinality(CredentialsOf(creds', u)) <= 1
       /\ \A i \in DOMAIN creds : i \in DOMAIN creds' /\ creds'[i] = creds[i]
       /\ \A u \in Users :
             CredentialsOf(creds, u) # {} => CredentialsOf(creds', u) = CredentialsOf(creds, u)
       /\ \A p \in Procs :
             CredReturned(p)' =>
                 CredentialsOf(creds', loc'[p].call.user) = {loc'[p].call.tok}
       /\ (last'.op = "cred" /\ last'.user # None) =>
             CredentialsOf(creds', last'.user) = {last'.tok}]_vars

\* Two requests raced to create the credential of one user: one inserted it,
\* the other was refused by the database, and both returned the same row.
C14_Witness ==
    /\ CredReturned("p1") /\ CredReturned("p2")
    /\ loc["p1"].call.user = loc["p2"].call.user
    /\ loc["p1"].call.tok = loc["p2"].call.tok
    /\ loc["p2"].call.arg = <<"IntegrityError">>
    /\ Cardinality(CredentialsOf(creds, loc["p1"].call.user)) = 1

\* The outbound number is configured.
NumberConfigured == cfg.number \notin {Absent, ""}

\* C15: with test suppression on, SMS dispatch for any user of the system and
\* any token (none included) hands nothing to the transport and returns true
\* exactly when the outbound number is configured, false otherwise.
C15_SuppressedSms ==
    [][\A u \in Users, pk \in TokenArgs :
          (/\ last'.op = "sms" /\ last'.user = u /\ last'.tok = pk
           /\ cfg.suppress
           /\ send_sms_with_callback_token(u, pk))
              => /\ sent' = sent
                 /\ last'.ret = IF NumberConfigured THEN "True" ELSE "False"]_vars

\* A suppressed SMS dispatch has just succeeded although no Twilio client
\* is installed.
C15_Witness ==
    /\ last.op = "sms" /\ last.ret = "True"
    /\ cfg.suppress /\ NumberConfigured /\ cfg.twilio = "missing"
    /\ sent = 0

\* C16: with test suppression on, call dispatch for any user of the system
\* and any token (none included) returns true and hands nothing to the
\* transport, whatever the outbound number, the pool and the Twilio
\* credentials are.
C16_SuppressedCall ==
    [][\A u \in Users, pk \in TokenArgs :
          (/\ last'.op = "call" /\ last'.user = u /\ last'.tok = pk
           /\ cfg.suppress
           /\ send_call_with_callback_token(u, pk))
              => (sent' = sent /\ last'.ret = "True")]_vars

\* A suppressed call dispatch has just succeeded with no outbound number, no
\* virtual number and no Twilio credentials configured.
C16_Witness ==
    /\ last.op = "call" /\ last.ret = "True"
    /\ cfg.suppress /\ cfg.number = Absent /\ pool = << >> /\ cfg.twilio = "nocreds"
    /\ sent = 0

\* C17: authenticate(k) returns a user only when exactly one active AUTH
\* token has key k; the user is that token's owner, that token is deactivated
\* and no other record changes. When several active AUTH tokens share k it
\* returns none.
C17_TrustsOnlyTheUniqueToken ==
    [][\A k \in KeyInputs :
          authenticate_by_token(k) =>
              /\ last'.ret # None =>
                    \E pk \in DOMAIN tokens :
                        /\ LiveAuthWithKey(k) = {pk}
                        /\ last'.ret = tokens[pk].user
                        /\ tokens' = [tokens EXCEPT ![pk].is_active = FALSE]
              /\ Cardinality(LiveAuthWithKey(k)) > 1 => last'.ret = None]_vars

\* authenticate has just redeemed the one active AUTH token of a key that an
\* active VERIFY token shares, and has left the VERIFY token alone.
C17_Witness ==
    /\ last.op = "auth" /\ last.tok # 0
    /\ last.ret = tokens[last.tok].user
    /\ ~tokens[last.tok].is_active
    /\ \E q \in DOMAIN tokens :
          /\ q # last.tok /\ tokens[q].key = tokens[last.tok].key
          /\ tokens[q].is_active /\ tokens[q].type = "VERIFY"

\* C18: an authenticate call that returns none leaves every token record
\* unchanged, and no authenticate call, whatever it returns, deactivates a
\* VERIFY token.
C18_NoneChangesNothing ==
    [][\A k \in KeyInputs :
          authenticate_by_token(k) =>
              /\ last'.ret = None => tokens' = tokens
              /\ \A pk \in DOMAIN tokens :
                    (tokens[pk].type = "VERIFY" /\ tokens[pk].is_active)
                        => tokens'[pk].is_active]_vars

\* authenticate has just returned none in a store whose only active tokens
\* are VERIFY tokens.
C18_Witness ==
    /\ last.op = "auth" /\ last.ret = None /\ last.tok = 0
    /\ \E pk \in DOMAIN tokens : tokens[pk].is_active /\ tokens[pk].type = "VERIFY"
    /\ \A pk \in DOMAIN tokens : tokens[pk].is_active => tokens[pk].type = "VERIFY"

\* C20: authenticate(k) returns a user for a non-demo token, under a positive
\* expiry window, only if the token's age is within the window.
C20_NoLateRedemption ==
    [][\A pk \in DOMAIN tokens :
          (/\ AuthStepFor(pk) /\ last'.tok = pk
           /\ ~InRegistry(tokens[pk]) /\ WindowPositive)
              => Age(tokens[pk]) <= expire[1]]_vars

\* C19: every token a successful createToken(user, aliasType, tokenType)
\* returns is active, belongs to user, has type tokenType and has to_alias
\* equal to the user's alias value at the time of the call, on the normal
\* path and on the demo path alike.
C19_ReturnedTokenMatchesRequest ==
    [][\A u \in Users, a \in AliasTypeInputs, t \in TokenTypeInputs :
          (/\ last'.op = "create" /\ last'.user = u /\ last'.arg = <<a, t>>
           /\ last'.tok # 0
           /\ create_callback_token_for_user(u, a, t))
              => LET row == tokens'[last'.tok] IN
                 /\ row.is_active
                 /\ row.user = u
                 /\ row.type = t
                 /\ row.to_alias = alias[u][FieldSetting(a)]]_vars

====
